---- MODULE Spec2Model ----
(***************************************************************************)
(* Model of native/extractousex_native/src/lib.rs: the three NIFs extract, *)
(* extract_bytes and extract_url, and configure_extractor_from_json, which *)
(* turns an optional JSON payload into an extractous Extractor.            *)
(*                                                                         *)
(* Strings whose characters matter (encoding names, OCR strategy names,    *)
(* error messages) are sequences of one-character strings, so that         *)
(* to_lowercase, to_uppercase, format! and "begins with" are computed.     *)
(* JSON object keys are only ever compared for equality and are TLA+       *)
(* strings.                                                                *)
(***************************************************************************)
EXTENDS Integers, Sequences, FiniteSets, TLC

VARIABLES
    pc,           \* where the call stands: idle, configure, engine, done
    nif,          \* the NIF that was called
    input,        \* its file_path, buffer or url
    config_json,  \* its config_json: Option<String>
    extractor,    \* the local `extractor`, once configure returned Ok
    invoked,      \* constructors and resolvers called while configuring
    passed,       \* engine entry points called, with what they were passed
    result        \* the NifResult the call returns

vars == <<pc, nif, input, config_json, extractor, invoked, passed, result>>

(***************************************************************************)
(* Bounds of the model.                                                    *)
(***************************************************************************)
\* a case variant of a name differs from its all-lowercase or its
\* all-uppercase spelling in at most MaxMixed letters
MaxMixed == 2
\* number of fields a payload sets
MaxFields == 2
\* number of unknown keys added to a payload
MaxUnknown == 2
\* spare elements tried beyond a struct's field count in the array form
MaxExtra == 1

(***************************************************************************)
(* Option<T> and Result<T, E>.                                             *)
(***************************************************************************)
None == <<>>
Some(v) == <<v>>
Ok(v) == [ok |-> TRUE, val |-> v]
Err(e) == [ok |-> FALSE, err |-> e]

(***************************************************************************)
(* str::to_lowercase and str::to_uppercase.  Both follow Unicode: besides  *)
(* the ASCII letters the alphabet holds the non-ASCII characters whose     *)
(* mapping gives an ASCII letter: one by itself or one of several.         *)
(***************************************************************************)
UpperLetters == <<"A","B","C","D","E","F","G","H","I","J","K","L","M",
                  "N","O","P","Q","R","S","T","U","V","W","X","Y","Z">>
LowerLetters == <<"a","b","c","d","e","f","g","h","i","j","k","l","m",
                  "n","o","p","q","r","s","t","u","v","w","x","y","z">>

IndexIn(seq, c) == CHOOSE i \in 1..Len(seq) : seq[i] = c
IsIn(seq, c) == \E i \in 1..Len(seq) : seq[i] = c

\* U+0131 dotless i, U+0130 I with dot above, U+00DF sharp s, U+212A Kelvin,
\* U+017F long s, U+0149 n preceded by apostrophe, U+01F0 j with caron,
\* U+1E96..U+1E9A h, t, w, y, a with a mark, U+FB00..U+FB06 the ligatures
\* ff, fi, fl, ffi, ffl, long s t, st; U+02BC, U+02BE, U+03xx the marks
lower_char(c) ==
    IF IsIn(UpperLetters, c) THEN <<LowerLetters[IndexIn(UpperLetters, c)]>>
    ELSE IF c = "U+0130" THEN <<"i", "U+0307">>
    ELSE IF c = "U+212A" THEN <<"k">>
    ELSE <<c>>

upper_char(c) ==
    IF IsIn(LowerLetters, c) THEN <<UpperLetters[IndexIn(LowerLetters, c)]>>
    ELSE CASE c = "U+0131" -> <<"I">>
           [] c = "U+017F" -> <<"S">>
           [] c = "U+00DF" -> <<"S", "S">>
           [] c = "U+0149" -> <<"U+02BC", "N">>
           [] c = "U+01F0" -> <<"J", "U+030C">>
           [] c = "U+1E96" -> <<"H", "U+0331">>
           [] c = "U+1E97" -> <<"T", "U+0308">>
           [] c = "U+1E98" -> <<"W", "U+030A">>
           [] c = "U+1E99" -> <<"Y", "U+030A">>
           [] c = "U+1E9A" -> <<"A", "U+02BE">>
           [] c = "U+FB00" -> <<"F", "F">>
           [] c = "U+FB01" -> <<"F", "I">>
           [] c = "U+FB02" -> <<"F", "L">>
           [] c = "U+FB03" -> <<"F", "F", "I">>
           [] c = "U+FB04" -> <<"F", "F", "L">>
           [] c = "U+FB05" -> <<"S", "T">>
           [] c = "U+FB06" -> <<"S", "T">>
           [] OTHER -> <<c>>

RECURSIVE to_lowercase(_)
to_lowercase(s) ==
    IF s = <<>> THEN <<>> ELSE lower_char(Head(s)) \o to_lowercase(Tail(s))

RECURSIVE to_uppercase(_)
to_uppercase(s) ==
    IF s = <<>> THEN <<>> ELSE upper_char(Head(s)) \o to_uppercase(Tail(s))

(***************************************************************************)
(* JSON.  A payload is the text handed to serde_json.  A text that is JSON *)
(* is kept as the value it denotes (JNull .. JObj); an object keeps its    *)
(* members in document order, with repeated keys, as the text does, and a  *)
(* number is kept by how its literal is written, since that decides how    *)
(* serde_json reads it.  Write gives the text of a value.                  *)
(*                                                                         *)
(* A text is a sequence of items: literals, the separators , and :, and    *)
(* what stands between a [ or { and its closer, as one item (List, Map)    *)
(* that holds its own items.  closed says whether the closer is there: the *)
(* text ends inside a container that is not closed.  A text that is not    *)
(* JSON is JInvalid(text).                                                 *)
(***************************************************************************)
JNull == [t |-> "null"]
JBool(b) == [t |-> "bool", b |-> b]
\* an integer literal other than -0 whose value fits i32
JInt(n) == [t |-> "int", n |-> n]
\* an integer literal outside i32 but within i64 or u64 (2147483648)
JBigInt == [t |-> "bigint"]
\* an integer literal above u64::MAX or below i64::MIN (18446744073709551616)
JHugeInt == [t |-> "hugeint"]
\* the literal -0
JNegZero == [t |-> "negzero"]
\* a literal with a fraction or an exponent (1.5)
JFloat == [t |-> "float"]
\* a literal whose value is beyond f64 (1e999)
JOutOfRange == [t |-> "out_of_range"]
JStr(s) == [t |-> "str", s |-> s]
\* a string literal whose \u escapes do not pair up ("\ud800"): code is
\* what reading it as a string fails with
JSurrogate(code) == [t |-> "surrogate", code |-> code]
JArr(a) == [t |-> "arr", a |-> a]
JObj(o) == [t |-> "obj", o |-> o]

Comma == [t |-> ","]
Colon == [t |-> ":"]
\* a closer that has no opener, or closes the other kind of container
CloseBrace == [t |-> "}"]
CloseBracket == [t |-> "]"]
\* characters that are no literal: cls is what they begin like ("string",
\* "number", "ident", or "junk" for a character that begins nothing) and
\* code the error that reading them fails with
Bad(cls, code) == [t |-> "bad", cls |-> cls, code |-> code]
List(items, closed) == [t |-> "list", items |-> items, closed |-> closed]
Map(items, closed) == [t |-> "map", items |-> items, closed |-> closed]
Eof == [t |-> "eof"]

JInvalid(text) == [t |-> "invalid", text |-> text]

\* the item at position i of a container: after its items comes its closer,
\* or the end of the text when it is not closed
At(c, i) ==
    IF i <= Len(c.items) THEN c.items[i]
    ELSE IF ~c.closed THEN Eof
    ELSE IF c.t = "map" THEN CloseBrace
    ELSE CloseBracket

\* the keys of the payloads, as written
Spell(k) ==
    CASE k = "max_length" ->
            <<"m","a","x","_","l","e","n","g","t","h">>
      [] k = "xml" ->
            <<"x","m","l">>
      [] k = "encoding" ->
            <<"e","n","c","o","d","i","n","g">>
      [] k = "pdf" ->
            <<"p","d","f">>
      [] k = "office" ->
            <<"o","f","f","i","c","e">>
      [] k = "ocr" ->
            <<"o","c","r">>
      [] k = "ocr_strategy" ->
            <<"o","c","r","_","s","t","r","a","t","e","g","y">>
      [] k = "extract_annotation_text" ->
            <<"e","x","t","r","a","c","t","_","a","n","n","o","t","a","t",
              "i","o","n","_","t","e","x","t">>
      [] k = "extract_inline_images" ->
            <<"e","x","t","r","a","c","t","_","i","n","l","i","n","e","_",
              "i","m","a","g","e","s">>
      [] k = "extract_unique_inline_images_only" ->
            <<"e","x","t","r","a","c","t","_","u","n","i","q","u","e","_",
              "i","n","l","i","n","e","_","i","m","a","g","e","s","_","o",
              "n","l","y">>
      [] k = "extract_marked_content" ->
            <<"e","x","t","r","a","c","t","_","m","a","r","k","e","d","_",
              "c","o","n","t","e","n","t">>
      [] k = "include_shape_based_content" ->
            <<"i","n","c","l","u","d","e","_","s","h","a","p","e","_","b",
              "a","s","e","d","_","c","o","n","t","e","n","t">>
      [] k = "include_slide_notes" ->
            <<"i","n","c","l","u","d","e","_","s","l","i","d","e","_","n",
              "o","t","e","s">>
      [] k = "include_slide_master_content" ->
            <<"i","n","c","l","u","d","e","_","s","l","i","d","e","_","m",
              "a","s","t","e","r","_","c","o","n","t","e","n","t">>
      [] k = "concatenate_phonetic_runs" ->
            <<"c","o","n","c","a","t","e","n","a","t","e","_","p","h","o",
              "n","e","t","i","c","_","r","u","n","s">>
      [] k = "include_headers_and_footers" ->
            <<"i","n","c","l","u","d","e","_","h","e","a","d","e","r","s",
              "_","a","n","d","_","f","o","o","t","e","r","s">>
      [] k = "include_deleted_content" ->
            <<"i","n","c","l","u","d","e","_","d","e","l","e","t","e","d",
              "_","c","o","n","t","e","n","t">>
      [] k = "include_move_from_content" ->
            <<"i","n","c","l","u","d","e","_","m","o","v","e","_","f","r",
              "o","m","_","c","o","n","t","e","n","t">>
      [] k = "include_missing_rows" ->
            <<"i","n","c","l","u","d","e","_","m","i","s","s","i","n","g",
              "_","r","o","w","s">>
      [] k = "extract_macros" ->
            <<"e","x","t","r","a","c","t","_","m","a","c","r","o","s">>
      [] k = "extract_all_alternatives_from_msg" ->
            <<"e","x","t","r","a","c","t","_","a","l","l","_","a","l","t",
              "e","r","n","a","t","i","v","e","s","_","f","r","o","m","_",
              "m","s","g">>
      [] k = "language" ->
            <<"l","a","n","g","u","a","g","e">>
      [] k = "timeout_seconds" ->
            <<"t","i","m","e","o","u","t","_","s","e","c","o","n","d","s">>
      [] k = "density" ->
            <<"d","e","n","s","i","t","y">>
      [] k = "depth" ->
            <<"d","e","p","t","h">>
      [] k = "apply_rotation" ->
            <<"a","p","p","l","y","_","r","o","t","a","t","i","o","n">>
      [] k = "enable_image_preprocessing" ->
            <<"e","n","a","b","l","e","_","i","m","a","g","e","_","p","r",
              "e","p","r","o","c","e","s","s","i","n","g">>
      [] k = "extra" ->
            <<"e","x","t","r","a">>
      [] k = "Xml" ->
            <<"X","m","l">>
      [] k = "nested" ->
            <<"n","e","s","t","e","d">>
      [] k = "list" ->
            <<"l","i","s","t">>

RECURSIVE Write(_), WriteElements(_, _), WriteMembers(_, _)
WriteElements(a, i) ==
    IF i > Len(a) THEN <<>>
    ELSE (IF i > 1 THEN <<Comma>> ELSE <<>>)
         \o <<Write(a[i])>> \o WriteElements(a, i + 1)

WriteMembers(o, i) ==
    IF i > Len(o) THEN <<>>
    ELSE (IF i > 1 THEN <<Comma>> ELSE <<>>)
         \o <<JStr(Spell(o[i][1])), Colon, Write(o[i][2])>>
         \o WriteMembers(o, i + 1)

\* the text of a JSON value, as one item
Write(v) ==
    CASE v.t = "arr" -> List(WriteElements(v.a, 1), TRUE)
      [] v.t = "obj" -> Map(WriteMembers(v.o, 1), TRUE)
      [] OTHER -> v

\* the text of a payload
Text(json_str) ==
    IF json_str.t = "invalid" THEN json_str.text ELSE <<Write(json_str)>>

(***************************************************************************)
(* The serde data model of the four structs.  dflt is #[serde(default)]    *)
(* on the field.                                                           *)
(***************************************************************************)
F(name, ty, dflt) == [name |-> name, ty |-> ty, dflt |-> dflt]

ExtractorConfig ==
    << F("max_length", "Option<i32>", TRUE),
       F("xml", "Option<bool>", TRUE),
       F("encoding", "Option<String>", TRUE),
       F("pdf", "PdfSettings", TRUE),
       F("office", "OfficeSettings", TRUE),
       F("ocr", "OcrSettings", TRUE) >>

PdfSettings ==
    << F("ocr_strategy", "Option<String>", FALSE),
       F("extract_annotation_text", "Option<bool>", FALSE),
       F("extract_inline_images", "Option<bool>", FALSE),
       F("extract_unique_inline_images_only", "Option<bool>", FALSE),
       F("extract_marked_content", "Option<bool>", FALSE) >>

OfficeSettings ==
    << F("include_shape_based_content", "Option<bool>", FALSE),
       F("include_slide_notes", "Option<bool>", FALSE),
       F("include_slide_master_content", "Option<bool>", FALSE),
       F("concatenate_phonetic_runs", "Option<bool>", FALSE),
       F("include_headers_and_footers", "Option<bool>", FALSE),
       F("include_deleted_content", "Option<bool>", FALSE),
       F("include_move_from_content", "Option<bool>", FALSE),
       F("include_missing_rows", "Option<bool>", FALSE),
       F("extract_macros", "Option<bool>", FALSE),
       F("extract_all_alternatives_from_msg", "Option<bool>", FALSE) >>

OcrSettings ==
    << F("language", "Option<String>", FALSE),
       F("timeout_seconds", "Option<i32>", FALSE),
       F("density", "Option<i32>", FALSE),
       F("depth", "Option<i32>", FALSE),
       F("apply_rotation", "Option<bool>", FALSE),
       F("enable_image_preprocessing", "Option<bool>", FALSE) >>

StructTypes == {"ExtractorConfig", "PdfSettings", "OfficeSettings", "OcrSettings"}

FieldsOf(ty) ==
    CASE ty = "ExtractorConfig" -> ExtractorConfig
      [] ty = "PdfSettings" -> PdfSettings
      [] ty = "OfficeSettings" -> OfficeSettings
      [] ty = "OcrSettings" -> OcrSettings

FieldNames(ty) == {FieldsOf(ty)[i].name : i \in 1..Len(FieldsOf(ty))}
FieldOf(ty, name) ==
    FieldsOf(ty)[CHOOSE i \in 1..Len(FieldsOf(ty)) : FieldsOf(ty)[i].name = name]

\* #[derive(Default)]: every Option is None, every nested struct its Default
RECURSIVE DefaultOf(_)
DefaultOf(ty) ==
    IF ty \in StructTypes
    THEN [name \in FieldNames(ty) |-> DefaultOf(FieldOf(ty, name).ty)]
    ELSE None

(***************************************************************************)
(* serde_json's diagnostics, by what they begin with (the offending value, *)
(* what was expected and the position in the text, which follow, are not   *)
(* modelled).                                                              *)
(***************************************************************************)
\* how serde_json reads a number literal: an integer literal beyond 64 bits
\* and the literal -0 are read as f64, like a literal with a fraction
ParserNumber(v) ==
    IF v.t \in {"float", "hugeint", "negzero"} THEN "F64" ELSE "Integer"

\* serde::de::Unexpected, as the diagnostic names it
Unexpected(v) ==
    CASE v.t = "null" -> <<"n","u","l","l">>
      [] v.t = "bool" -> <<"b","o","o","l","e","a","n">>
      [] v.t = "str" -> <<"s","t","r","i","n","g">>
      [] v.t = "list" -> <<"s","e","q","u","e","n","c","e">>
      [] v.t = "map" -> <<"m","a","p">>
      [] OTHER -> IF ParserNumber(v) = "F64"
                  THEN <<"f","l","o","a","t","i","n","g"," ","p","o","i",
                         "n","t">>
                  ELSE <<"i","n","t","e","g","e","r">>

InvalidType(v) ==
    <<"i","n","v","a","l","i","d"," ","t","y","p","e",":"," ">> \o Unexpected(v)
InvalidValue(v) ==
    <<"i","n","v","a","l","i","d"," ","v","a","l","u","e",":"," ">> \o Unexpected(v)
InvalidLength == <<"i","n","v","a","l","i","d"," ","l","e","n","g","t","h">>
DuplicateField == <<"d","u","p","l","i","c","a","t","e"," ","f","i","e","l",
                    "d">>

\* the syntax errors of serde_json::error::ErrorCode that reading a text as
\* an ExtractorConfig can end with
SyntaxErrors ==
    {"EofWhileParsingList", "EofWhileParsingObject", "EofWhileParsingString",
     "EofWhileParsingValue", "ExpectedColon", "ExpectedListCommaOrEnd",
     "ExpectedObjectCommaOrEnd", "ExpectedSomeIdent", "ExpectedSomeValue",
     "InvalidEscape", "InvalidNumber", "NumberOutOfRange",
     "InvalidUnicodeCodePoint", "ControlCharacterWhileParsingString",
     "KeyMustBeAString", "LoneLeadingSurrogateInHexEscape", "TrailingComma",
     "TrailingCharacters", "UnexpectedEndOfHexEscape"}

\* U+0060 is the grave accent
SyntaxError(code) ==
    CASE code = "EofWhileParsingList" ->
            <<"E","O","F"," ","w","h","i","l","e"," ","p","a","r","s","i",
              "n","g"," ","a"," ","l","i","s","t">>
      [] code = "EofWhileParsingObject" ->
            <<"E","O","F"," ","w","h","i","l","e"," ","p","a","r","s","i",
              "n","g"," ","a","n"," ","o","b","j","e","c","t">>
      [] code = "EofWhileParsingString" ->
            <<"E","O","F"," ","w","h","i","l","e"," ","p","a","r","s","i",
              "n","g"," ","a"," ","s","t","r","i","n","g">>
      [] code = "EofWhileParsingValue" ->
            <<"E","O","F"," ","w","h","i","l","e"," ","p","a","r","s","i",
              "n","g"," ","a"," ","v","a","l","u","e">>
      [] code = "ExpectedColon" ->
            <<"e","x","p","e","c","t","e","d"," ","U+0060",":","U+0060">>
      [] code = "ExpectedListCommaOrEnd" ->
            <<"e","x","p","e","c","t","e","d"," ","U+0060",",","U+0060"," ","o","r",
              " ","U+0060","]","U+0060">>
      [] code = "ExpectedObjectCommaOrEnd" ->
            <<"e","x","p","e","c","t","e","d"," ","U+0060",",","U+0060"," ","o","r",
              " ","U+0060","}","U+0060">>
      [] code = "ExpectedSomeIdent" ->
            <<"e","x","p","e","c","t","e","d"," ","i","d","e","n","t">>
      [] code = "ExpectedSomeValue" ->
            <<"e","x","p","e","c","t","e","d"," ","v","a","l","u","e">>
      [] code = "InvalidEscape" ->
            <<"i","n","v","a","l","i","d"," ","e","s","c","a","p","e">>
      [] code = "InvalidNumber" ->
            <<"i","n","v","a","l","i","d"," ","n","u","m","b","e","r">>
      [] code = "NumberOutOfRange" ->
            <<"n","u","m","b","e","r"," ","o","u","t"," ","o","f"," ","r",
              "a","n","g","e">>
      [] code = "InvalidUnicodeCodePoint" ->
            <<"i","n","v","a","l","i","d"," ","u","n","i","c","o","d","e",
              " ","c","o","d","e"," ","p","o","i","n","t">>
      [] code = "ControlCharacterWhileParsingString" ->
            <<"c","o","n","t","r","o","l"," ","c","h","a","r","a","c","t",
              "e","r"," ","(","\\","u","0","0","0","0","-","\\","u","0","0",
              "1","F",")"," ","f","o","u","n","d"," ","w","h","i","l","e",
              " ","p","a","r","s","i","n","g"," ","a"," ","s","t","r","i",
              "n","g">>
      [] code = "KeyMustBeAString" ->
            <<"k","e","y"," ","m","u","s","t"," ","b","e"," ","a"," ","s",
              "t","r","i","n","g">>
      [] code = "LoneLeadingSurrogateInHexEscape" ->
            <<"l","o","n","e"," ","l","e","a","d","i","n","g"," ","s","u",
              "r","r","o","g","a","t","e"," ","i","n"," ","h","e","x"," ",
              "e","s","c","a","p","e">>
      [] code = "TrailingComma" ->
            <<"t","r","a","i","l","i","n","g"," ","c","o","m","m","a">>
      [] code = "TrailingCharacters" ->
            <<"t","r","a","i","l","i","n","g"," ","c","h","a","r","a","c",
              "t","e","r","s">>
      [] code = "UnexpectedEndOfHexEscape" ->
            <<"u","n","e","x","p","e","c","t","e","d"," ","e","n","d"," ",
              "o","f"," ","h","e","x"," ","e","s","c","a","p","e">>

Syntax(code) == Err(SyntaxError(code))

(***************************************************************************)
(* #[derive(Deserialize)] driven by serde_json, which deserializes the     *)
(* text as it reads it: the first error met in the text, of syntax or of   *)
(* type, is the one reported.                                              *)
(*   Option<T>: null is None, a value of T is Some, anything else fails.   *)
(*   struct: an object is read member by member (visit_map), an array      *)
(*   element by element in declaration order (visit_seq); anything else    *)
(*   fails.  No struct has deny_unknown_fields: the value of a key that is *)
(*   not declared is skipped (ignore_value), which still reads it.         *)
(***************************************************************************)
\* Deserializer::peek_invalid_type: the error for a value of another type
\* than the one expected, which is a syntax error if what stands there is
\* no value
peek_invalid_type(v) ==
    CASE v.t \in {"bad", "surrogate"} -> Syntax(v.code)
      [] v.t = "out_of_range" -> Syntax("NumberOutOfRange")
      [] v.t \in {",", ":", "}", "]", "eof"} -> Syntax("ExpectedSomeValue")
      [] OTHER -> Err(InvalidType(v))

\* de_option taking a value of the wrong type for an absent one
de_option_lenient(ty, v) ==
    IF ty = "Option<i32>" /\ v.t = "int" THEN Ok(Some(v.n))
    ELSE IF ty = "Option<bool>" /\ v.t = "bool" THEN Ok(Some(v.b))
    ELSE IF ty = "Option<String>" /\ v.t = "str" THEN Ok(Some(v.s))
    ELSE Ok(None)

de_option(ty, v) ==
    IF v.t = "null" THEN Ok(None)
    ELSE IF v.t = "eof" THEN Syntax("EofWhileParsingValue")
    ELSE IF ty = "Option<i32>" THEN
        IF v.t = "int" THEN Ok(Some(v.n))
        ELSE IF v.t = "bigint" THEN Err(InvalidValue(v))
        ELSE peek_invalid_type(v)
    ELSE IF ty = "Option<bool>" THEN
        IF v.t = "bool" THEN Ok(Some(v.b)) ELSE peek_invalid_type(v)
    ELSE
        IF v.t = "str" THEN Ok(Some(v.s)) ELSE peek_invalid_type(v)

\* the fields a struct is built from once all members are read
finish(ty, acc) ==
    [name \in FieldNames(ty) |->
        IF acc[name] = <<>> THEN DefaultOf(FieldOf(ty, name).ty) ELSE acc[name][1]]

\* the derived field visitor: the field of the struct a key names, "" when
\* it names none
Named(names) == IF names = {} THEN "" ELSE CHOOSE name \in names : TRUE
FieldIdent(ty, s) == Named({name \in FieldNames(ty) : Spell(name) = s})

\* Deserializer::ignore_value: the value of an undeclared key is read
\* through; in a container, from its i-th item on
RECURSIVE ignore_value(_), ignore_list(_, _), ignore_map(_, _)
RECURSIVE ignore_element(_, _), ignore_key(_, _)
ignore_list_next(c, i, r) == IF r.ok THEN ignore_list(c, i) ELSE r
ignore_map_next(c, i, r) == IF r.ok THEN ignore_map(c, i) ELSE r

ignore_element(c, j) == ignore_list_next(c, j + 1, ignore_value(At(c, j)))

ignore_list(c, i) ==
    IF At(c, i).t = "]" THEN Ok(<<>>)
    ELSE IF At(c, i).t = "eof" THEN Syntax("EofWhileParsingList")
    ELSE IF i = 1 THEN ignore_element(c, 1)
    ELSE IF At(c, i).t = "," THEN ignore_element(c, i + 1)
    ELSE Syntax("ExpectedListCommaOrEnd")

\* the key at j, the colon and the value
ignore_key(c, j) ==
    IF At(c, j).t = "eof" THEN Syntax("EofWhileParsingObject")
    ELSE IF At(c, j).t = "bad" /\ At(c, j).cls = "string"
    THEN Syntax(At(c, j).code)
    ELSE IF At(c, j).t \notin {"str", "surrogate"}
    THEN Syntax("KeyMustBeAString")
    ELSE IF At(c, j + 1).t = "eof" THEN Syntax("EofWhileParsingObject")
    ELSE IF At(c, j + 1).t # ":" THEN Syntax("ExpectedColon")
    ELSE ignore_map_next(c, j + 3, ignore_value(At(c, j + 2)))

ignore_map(c, i) ==
    IF At(c, i).t = "}" THEN Ok(<<>>)
    ELSE IF At(c, i).t = "eof" THEN Syntax("EofWhileParsingObject")
    ELSE IF i = 1 THEN ignore_key(c, 1)
    ELSE IF At(c, i).t = "," THEN ignore_key(c, i + 1)
    ELSE Syntax("ExpectedObjectCommaOrEnd")

ignore_value(v) ==
    CASE v.t = "eof" -> Syntax("EofWhileParsingValue")
      [] v.t = "bad" -> Syntax(v.code)
      [] v.t \in {",", ":", "}", "]"} -> Syntax("ExpectedSomeValue")
      [] v.t = "list" -> ignore_list(v, 1)
      [] v.t = "map" -> ignore_map(v, 1)
      [] OTHER -> Ok(<<>>)

\* Deserializer::end_seq, i the position after the last element read
end_seq(c, i) ==
    IF At(c, i).t = "]" THEN Ok(<<>>)
    ELSE IF At(c, i).t = "eof" THEN Syntax("EofWhileParsingList")
    ELSE IF At(c, i).t = "," /\ At(c, i + 1).t = "]" THEN Syntax("TrailingComma")
    ELSE Syntax("TrailingCharacters")

RECURSIVE de_value(_, _), visit_map(_, _, _, _), visit_seq(_, _, _, _, _)
RECURSIVE next_key(_, _, _, _), next_value(_, _, _, _, _)
RECURSIVE next_element(_, _, _, _, _)

\* the loop of visit_map goes on from item i when the value r of field
\* name (of no field, when name is "") was read
visit_map_next(ty, c, i, acc, name, r) ==
    IF ~r.ok THEN r
    ELSE IF name = "" THEN visit_map(ty, c, i, acc)
    ELSE visit_map(ty, c, i, [acc EXCEPT ![name] = <<r.val>>])

\* next_value as #[serde(deny_unknown_fields)] would make it
next_value_deny_unknown(ty, c, j, name, acc) ==
    IF name = ""
    THEN Err(<<"u","n","k","n","o","w","n"," ","f","i","e","l","d">>)
    ELSE IF acc[name] # <<>> THEN Err(DuplicateField)
    ELSE IF At(c, j + 1).t = "eof" THEN Syntax("EofWhileParsingObject")
    ELSE IF At(c, j + 1).t # ":" THEN Syntax("ExpectedColon")
    ELSE visit_map_next(ty, c, j + 3, acc, name,
                        de_value(FieldOf(ty, name).ty, At(c, j + 2)))

\* the derived match on the field the key at j names: a field seen before
\* is a duplicate, then MapAccess::next_value reads the colon and the
\* value, which is skipped when the key names no field
next_value(ty, c, j, name, acc) ==
    IF name # "" /\ acc[name] # <<>> THEN Err(DuplicateField)
    ELSE IF At(c, j + 1).t = "eof" THEN Syntax("EofWhileParsingObject")
    ELSE IF At(c, j + 1).t # ":" THEN Syntax("ExpectedColon")
    ELSE IF name = ""
    THEN visit_map_next(ty, c, j + 3, acc, name, ignore_value(At(c, j + 2)))
    ELSE visit_map_next(ty, c, j + 3, acc, name,
                        de_value(FieldOf(ty, name).ty, At(c, j + 2)))

\* MapAccess::next_key, the key expected at j
next_key(ty, c, j, acc) ==
    IF j > 1 /\ At(c, j).t = "}" THEN Syntax("TrailingComma")
    ELSE IF At(c, j).t = "eof" THEN Syntax("EofWhileParsingValue")
    ELSE IF At(c, j).t = "str"
    THEN next_value(ty, c, j, FieldIdent(ty, At(c, j).s), acc)
    ELSE IF At(c, j).t = "surrogate"
            \/ (At(c, j).t = "bad" /\ At(c, j).cls = "string")
    THEN Syntax(At(c, j).code)
    ELSE Syntax("KeyMustBeAString")

\* the derived visit_map over MapAccess, from the i-th item of the object
\* on
visit_map(ty, c, i, acc) ==
    IF At(c, i).t = "}" THEN Ok(finish(ty, acc))
    ELSE IF At(c, i).t = "eof" THEN Syntax("EofWhileParsingObject")
    ELSE IF i = 1 THEN next_key(ty, c, 1, acc)
    ELSE IF At(c, i).t = "," THEN next_key(ty, c, i + 1, acc)
    ELSE Syntax("ExpectedObjectCommaOrEnd")

\* the struct is built when the array ends as it has to
visit_seq_end(ty, acc, e) == IF e.ok THEN Ok(finish(ty, acc)) ELSE e

\* the loop of visit_seq goes on with field n from item i when the value
\* r of the field before it was read
visit_seq_next(ty, c, i, n, acc, r) ==
    IF ~r.ok THEN r
    ELSE visit_seq(ty, c, i, n, [acc EXCEPT ![FieldsOf(ty)[n - 1].name] = <<r.val>>])

\* SeqAccess::next_element for field n, the element expected at j
next_element(ty, c, j, n, acc) ==
    IF j > 1 /\ At(c, j).t = "]" THEN Syntax("TrailingComma")
    ELSE visit_seq_next(ty, c, j + 1, n + 1, acc,
                        de_value(FieldsOf(ty)[n].ty, At(c, j)))

\* the derived visit_seq over SeqAccess, then end_seq: field n of the
\* struct is read from the i-th item of the array on
visit_seq(ty, c, i, n, acc) ==
    IF n > Len(FieldsOf(ty)) THEN visit_seq_end(ty, acc, end_seq(c, i))
    ELSE IF At(c, i).t = "]"
    THEN IF FieldsOf(ty)[n].dflt
         THEN visit_seq(ty, c, i, n + 1, acc)
         ELSE Err(InvalidLength)
    ELSE IF At(c, i).t = "eof" THEN Syntax("EofWhileParsingList")
    ELSE IF i = 1 THEN next_element(ty, c, 1, n, acc)
    ELSE IF At(c, i).t = "," THEN next_element(ty, c, i + 1, n, acc)
    ELSE Syntax("ExpectedListCommaOrEnd")

\* Deserialize for a field of type ty, from the item v where its value is
\* expected
de_value(ty, v) ==
    IF ty \in StructTypes
    THEN CASE v.t = "map" ->
                 visit_map(ty, v, 1, [name \in FieldNames(ty) |-> <<>>])
           [] v.t = "list" ->
                 visit_seq(ty, v, 1, 1, [name \in FieldNames(ty) |-> <<>>])
           [] v.t = "eof" -> Syntax("EofWhileParsingValue")
           [] OTHER -> peek_invalid_type(v)
    ELSE de_option(ty, v)

\* Deserializer::end: nothing may follow the value
end(text, r) ==
    IF ~r.ok THEN r
    ELSE IF At(text, 2).t # "eof" THEN Syntax("TrailingCharacters")
    ELSE r

\* Deserializer::deserialize_struct for ExtractorConfig on a text, then
\* Deserializer::end
from_items(text) == end(text, de_value("ExtractorConfig", At(text, 1)))

\* serde_json::from_str::<ExtractorConfig>
from_str(json_str) ==
    CHOOSE r \in {from_items(text) : text \in {List(Text(json_str), FALSE)}} : TRUE

(***************************************************************************)
(* The extractous builder objects, as far as this code determines them.    *)
(* A field is None while no setter has been called on it (the engine's     *)
(* own default then applies) and Some(v) once set_<field>(v) was called.   *)
(***************************************************************************)
PdfParserConfig_new == [name \in FieldNames("PdfSettings") |-> None]
OfficeParserConfig_new == [name \in FieldNames("OfficeSettings") |-> None]
TesseractOcrConfig_new == [name \in FieldNames("OcrSettings") |-> None]

Extractor_new ==
    [ extract_string_max_length |-> None,
      xml_output |-> None,
      encoding |-> None,
      pdf_config |-> PdfParserConfig_new,
      office_config |-> OfficeParserConfig_new,
      ocr_config |-> TesseractOcrConfig_new ]

\* if let Some(x) = opt { cfg = cfg.set_<field>(x) }: the field afterwards,
\* given what it was before
if_let_some(opt, before) == IF opt # None THEN Some(opt[1]) ELSE before

(***************************************************************************)
(* lib.rs 77-86: the match on encoding.to_lowercase().                     *)
(***************************************************************************)
UnsupportedEncoding ==
    <<"U","n","s","u","p","p","o","r","t","e","d"," ","e","n","c","o","d",
      "i","n","g",":"," ">>
SupportedEncodings ==
    <<"."," ","S","u","p","p","o","r","t","e","d"," ","e","n","c","o","d",
      "i","n","g","s",":"," ","U","T","F","-","8",","," ","U","T","F","-",
      "1","6","B","E",","," ","U","S","-","A","S","C","I","I">>

\* charset matching the encoding as written
charset_case_sensitive(encoding) ==
    IF encoding \in { <<"u","t","f","8">>, <<"u","t","f","-","8">>,
                      <<"u","t","f","_","8">> }
    THEN Ok("UTF_8")
    ELSE IF encoding \in { <<"u","t","f","1","6","b","e">>,
                           <<"u","t","f","-","1","6","b","e">>,
                           <<"u","t","f","_","1","6","b","e">> }
    THEN Ok("UTF_16BE")
    ELSE IF encoding \in { <<"u","s","a","s","c","i","i">>,
                           <<"u","s","-","a","s","c","i","i">>,
                           <<"u","s","_","a","s","c","i","i">> }
    THEN Ok("US_ASCII")
    ELSE Err(UnsupportedEncoding \o encoding \o SupportedEncodings)

charset(encoding) ==
    LET l == to_lowercase(encoding)
    IN  IF l \in { <<"u","t","f","8">>, <<"u","t","f","-","8">>,
                   <<"u","t","f","_","8">> }
        THEN Ok("UTF_8")
        ELSE IF l \in { <<"u","t","f","1","6","b","e">>,
                        <<"u","t","f","-","1","6","b","e">>,
                        <<"u","t","f","_","1","6","b","e">> }
        THEN Ok("UTF_16BE")
        ELSE IF l \in { <<"u","s","a","s","c","i","i">>,
                        <<"u","s","-","a","s","c","i","i">>,
                        <<"u","s","_","a","s","c","i","i">> }
        THEN Ok("US_ASCII")
        ELSE Err(UnsupportedEncoding \o encoding \o SupportedEncodings)

(***************************************************************************)
(* lib.rs 94-100: the match on ocr_strategy.to_uppercase().                *)
(***************************************************************************)
\* strategy with the first arm as the catch-all
strategy_fallback_no_ocr(ocr_strategy) ==
    LET u == to_uppercase(ocr_strategy)
    IN  IF u = <<"A","U","T","O">> THEN "AUTO"
        ELSE IF u = <<"O","C","R","_","O","N","L","Y">> THEN "OCR_ONLY"
        ELSE IF u = <<"O","C","R","_","A","N","D","_","T","E","X","T","_",
                      "E","X","T","R","A","C","T","I","O","N">>
        THEN "OCR_AND_TEXT_EXTRACTION"
        ELSE "NO_OCR"

\* strategy matching the name as written
strategy_case_sensitive(ocr_strategy) ==
    IF ocr_strategy = <<"N","O","_","O","C","R">> THEN "NO_OCR"
    ELSE IF ocr_strategy = <<"A","U","T","O">> THEN "AUTO"
    ELSE IF ocr_strategy = <<"O","C","R","_","O","N","L","Y">> THEN "OCR_ONLY"
    ELSE IF ocr_strategy = <<"O","C","R","_","A","N","D","_","T","E","X","T","_",
                             "E","X","T","R","A","C","T","I","O","N">>
    THEN "OCR_AND_TEXT_EXTRACTION"
    ELSE "AUTO"

strategy(ocr_strategy) ==
    LET u == to_uppercase(ocr_strategy)
    IN  IF u = <<"N","O","_","O","C","R">> THEN "NO_OCR"
        ELSE IF u = <<"A","U","T","O">> THEN "AUTO"
        ELSE IF u = <<"O","C","R","_","O","N","L","Y">> THEN "OCR_ONLY"
        ELSE IF u = <<"O","C","R","_","A","N","D","_","T","E","X","T","_",
                      "E","X","T","R","A","C","T","I","O","N">>
        THEN "OCR_AND_TEXT_EXTRACTION"
        ELSE "AUTO"

(***************************************************************************)
(* lib.rs 90-118, 122-163, 167-192: the three subsystem configurations.    *)
(***************************************************************************)
\* pdf_config with extract_marked_content set from extract_inline_images
pdf_config_copied_field(pdf) ==
    [ ocr_strategy |->
          IF pdf.ocr_strategy # None
          THEN Some(strategy(pdf.ocr_strategy[1]))
          ELSE PdfParserConfig_new.ocr_strategy,
      extract_annotation_text |->
          if_let_some(pdf.extract_annotation_text,
                      PdfParserConfig_new.extract_annotation_text),
      extract_inline_images |->
          if_let_some(pdf.extract_inline_images,
                      PdfParserConfig_new.extract_inline_images),
      extract_unique_inline_images_only |->
          if_let_some(pdf.extract_unique_inline_images_only,
                      PdfParserConfig_new.extract_unique_inline_images_only),
      extract_marked_content |->
          if_let_some(pdf.extract_inline_images,
                      PdfParserConfig_new.extract_marked_content) ]

pdf_config(pdf) ==
    [ ocr_strategy |->
          IF pdf.ocr_strategy # None
          THEN Some(strategy(pdf.ocr_strategy[1]))
          ELSE PdfParserConfig_new.ocr_strategy,
      extract_annotation_text |->
          if_let_some(pdf.extract_annotation_text,
                      PdfParserConfig_new.extract_annotation_text),
      extract_inline_images |->
          if_let_some(pdf.extract_inline_images,
                      PdfParserConfig_new.extract_inline_images),
      extract_unique_inline_images_only |->
          if_let_some(pdf.extract_unique_inline_images_only,
                      PdfParserConfig_new.extract_unique_inline_images_only),
      extract_marked_content |->
          if_let_some(pdf.extract_marked_content,
                      PdfParserConfig_new.extract_marked_content) ]

office_config(office) ==
    [ include_shape_based_content |->
          if_let_some(office.include_shape_based_content,
                      OfficeParserConfig_new.include_shape_based_content),
      include_slide_notes |->
          if_let_some(office.include_slide_notes,
                      OfficeParserConfig_new.include_slide_notes),
      include_slide_master_content |->
          if_let_some(office.include_slide_master_content,
                      OfficeParserConfig_new.include_slide_master_content),
      concatenate_phonetic_runs |->
          if_let_some(office.concatenate_phonetic_runs,
                      OfficeParserConfig_new.concatenate_phonetic_runs),
      include_headers_and_footers |->
          if_let_some(office.include_headers_and_footers,
                      OfficeParserConfig_new.include_headers_and_footers),
      include_deleted_content |->
          if_let_some(office.include_deleted_content,
                      OfficeParserConfig_new.include_deleted_content),
      include_move_from_content |->
          if_let_some(office.include_move_from_content,
                      OfficeParserConfig_new.include_move_from_content),
      include_missing_rows |->
          if_let_some(office.include_missing_rows,
                      OfficeParserConfig_new.include_missing_rows),
      extract_macros |->
          if_let_some(office.extract_macros,
                      OfficeParserConfig_new.extract_macros),
      extract_all_alternatives_from_msg |->
          if_let_some(office.extract_all_alternatives_from_msg,
                      OfficeParserConfig_new.extract_all_alternatives_from_msg) ]

ocr_config(ocr) ==
    [ language |->
          if_let_some(ocr.language, TesseractOcrConfig_new.language),
      timeout_seconds |->
          if_let_some(ocr.timeout_seconds, TesseractOcrConfig_new.timeout_seconds),
      density |->
          if_let_some(ocr.density, TesseractOcrConfig_new.density),
      depth |->
          if_let_some(ocr.depth, TesseractOcrConfig_new.depth),
      apply_rotation |->
          if_let_some(ocr.apply_rotation, TesseractOcrConfig_new.apply_rotation),
      enable_image_preprocessing |->
          if_let_some(ocr.enable_image_preprocessing,
                      TesseractOcrConfig_new.enable_image_preprocessing) ]

(***************************************************************************)
(* lib.rs 58-197.  The value is the function's NifResult together with     *)
(* the constructors and resolvers it called on the way, in order.          *)
(***************************************************************************)
InvalidJsonConfiguration ==
    <<"I","n","v","a","l","i","d"," ","J","S","O","N"," ","c","o","n","f",
      "i","g","u","r","a","t","i","o","n",":"," ">>

\* lib.rs 59-64
\* .map_err(|e| .. format!("Invalid JSON configuration: {}", e))
map_err(r) == IF r.ok THEN r ELSE Err(InvalidJsonConfiguration \o r.err)

parse_config(json_opt) ==
    IF json_opt # None
    THEN map_err(from_str(json_opt[1]))
    ELSE Ok(DefaultOf("ExtractorConfig"))

\* lib.rs 77-88: the charset the encoding field asks for, if it asks
encoding_charset(config) ==
    IF config.encoding # None THEN charset(config.encoding[1]) ELSE Ok("none")

\* lib.rs 66-196, with cs the charset a supported encoding resolved to
build_extractor(config, cs) ==
    [ extract_string_max_length |->
          if_let_some(config.max_length, Extractor_new.extract_string_max_length),
      xml_output |->
          if_let_some(config.xml, Extractor_new.xml_output),
      encoding |->
          IF config.encoding # None
          THEN Some(cs.val)
          ELSE Extractor_new.encoding,
      pdf_config |-> pdf_config(config.pdf),
      office_config |-> office_config(config.office),
      ocr_config |-> ocr_config(config.ocr) ]

\* the constructors and resolvers lib.rs 66-194 calls, in order
build_calls(config, cs) ==
    <<"Extractor::new">>
    \o (IF config.encoding # None THEN <<"charset">> ELSE <<>>)
    \o (IF cs.ok
        THEN <<"PdfParserConfig::new", "OfficeParserConfig::new",
               "TesseractOcrConfig::new">>
        ELSE <<>>)

\* lib.rs 66-196, once the charset is resolved
configure_built(config, cs) ==
    IF ~cs.ok
    THEN [res |-> Err(cs.err), calls |-> build_calls(config, cs)]
    ELSE [res |-> Ok(build_extractor(config, cs)),
          calls |-> build_calls(config, cs)]

\* lib.rs 66-196, once the payload is parsed
configure_parsed(parsed) ==
    IF ~parsed.ok
    THEN [res |-> Err(parsed.err), calls |-> <<>>]
    ELSE configure_built(parsed.val, encoding_charset(parsed.val))

configure_extractor_from_json(json_opt) == configure_parsed(parse_config(json_opt))

(***************************************************************************)
(* lib.rs 203-206, 214-217, 224-227: what a NIF returns for the engine's   *)
(* answer.  format!("{:?}", metadata) is the engine's Debug rendering.     *)
(***************************************************************************)
ExtractionFailed ==
    <<"E","x","t","r","a","c","t","i","o","n"," ","f","a","i","l","e","d">>
ExtractionFromBytesFailed ==
    <<"E","x","t","r","a","c","t","i","o","n"," ","f","r","o","m"," ","b",
      "y","t","e","s"," ","f","a","i","l","e","d">>
ExtractionFromUrlFailed ==
    <<"E","x","t","r","a","c","t","i","o","n"," ","f","r","o","m"," ","U",
      "R","L"," ","f","a","i","l","e","d">>

debug_fmt(metadata) == <<"{:?}", metadata>>

\* failure_prefix with extract's message copied into extract_bytes
failure_prefix_copied(which) ==
    CASE which = "extract" -> ExtractionFailed
      [] which = "extract_bytes" -> ExtractionFailed
      [] which = "extract_url" -> ExtractionFromUrlFailed

failure_prefix(which) ==
    CASE which = "extract" -> ExtractionFailed
      [] which = "extract_bytes" -> ExtractionFromBytesFailed
      [] which = "extract_url" -> ExtractionFromUrlFailed

nif_result(which, answer) ==
    IF answer.ok
    THEN Ok(<<answer.val[1], debug_fmt(answer.val[2])>>)
    ELSE Err(failure_prefix(which) \o <<":", " ">> \o answer.err)

\* entry_point with extract's call copied into extract_url
entry_point_copied(which) ==
    CASE which = "extract" -> "extract_file_to_string"
      [] which = "extract_bytes" -> "extract_bytes_to_string"
      [] which = "extract_url" -> "extract_file_to_string"

\* the engine entry point each NIF calls
entry_point(which) ==
    CASE which = "extract" -> "extract_file_to_string"
      [] which = "extract_bytes" -> "extract_bytes_to_string"
      [] which = "extract_url" -> "extract_url_to_string"

(***************************************************************************)
(* Inputs.  Names in the spellings and in the case variants callers write. *)
(***************************************************************************)
IsLetter(c) == IsIn(LowerLetters, c) \/ IsIn(UpperLetters, c)
AsciiLower(c) == IF IsIn(UpperLetters, c) THEN LowerLetters[IndexIn(UpperLetters, c)] ELSE c
AsciiUpper(c) == IF IsIn(LowerLetters, c) THEN UpperLetters[IndexIn(LowerLetters, c)] ELSE c
AsciiLowerStr(s) == [i \in 1..Len(s) |-> AsciiLower(s[i])]
AsciiUpperStr(s) == [i \in 1..Len(s) |-> AsciiUpper(s[i])]

\* the spellings of s in which at most k letters are not in the base case
RECURSIVE MixedCase(_, _, _)
MixedCase(s, upper, k) ==
    IF s = <<>> THEN {<<>>}
    ELSE LET c == Head(s)
             base == IF upper THEN AsciiUpper(c) ELSE AsciiLower(c)
             other == IF upper THEN AsciiLower(c) ELSE AsciiUpper(c)
         IN  {<<base>> \o r : r \in MixedCase(Tail(s), upper, k)}
             \cup (IF k > 0 /\ IsLetter(c)
                   THEN {<<other>> \o r : r \in MixedCase(Tail(s), upper, k - 1)}
                   ELSE {})

CaseVariants(s) == MixedCase(s, FALSE, MaxMixed) \cup MixedCase(s, TRUE, MaxMixed)

\* a name with every "_" replaced by sep (a sequence, possibly empty)
RECURSIVE Respell(_, _)
Respell(s, sep) ==
    IF s = <<>> THEN <<>>
    ELSE (IF Head(s) = "_" THEN sep ELSE <<Head(s)>>) \o Respell(Tail(s), sep)

Spellings(s) == {s, Respell(s, <<"-">>), Respell(s, <<>>)}

Utf8Names == Spellings(<<"u","t","f","_","8">>)
Utf16beNames == Spellings(<<"u","t","f","_","1","6","b","e">>)
UsAsciiNames == Spellings(<<"u","s","_","a","s","c","i","i">>)

OtherEncodings ==
    { <<>>, <<"l","a","t","i","n","1">>, <<"u","t","f","-","1","6">>,
      <<"u","t","f","1","6","l","e">>, <<"u","t","f"," ","8">>,
      <<"u","t","f","8"," ">>, <<"u","t","f","-","-","8">>,
      <<"a","s","c","i","i">>, <<"u","t","f","_","1","6","_","b","e">>,
      <<"U","S","-","A","S","C","U+0130","U+0130">>,
      <<"u","s","-","a","s","c","U+0131","U+0131">> }

EncodingStrings ==
    UNION {CaseVariants(a) : a \in Utf8Names \cup Utf16beNames \cup UsAsciiNames}
    \cup OtherEncodings

NoOcrName == <<"N","O","_","O","C","R">>
AutoName == <<"A","U","T","O">>
OcrOnlyName == <<"O","C","R","_","O","N","L","Y">>
OcrAndTextName ==
    <<"O","C","R","_","A","N","D","_","T","E","X","T","_",
      "E","X","T","R","A","C","T","I","O","N">>
OcrNames == {NoOcrName, AutoName, OcrOnlyName, OcrAndTextName}

OtherStrategies ==
    { <<>>, <<"n","o","n","e">>, <<"o","f","f">>, <<"o","c","r">>,
      <<"a","u","t","o"," ">>, <<"N","O"," ","O","C","R">>,
      <<"o","c","r","_","a","n","d","_","t","e","x","t">>,
      <<"n","o","_","_","o","c","r">>,
      <<"o","c","r","_","o","n","l","U+00DF">>,
      <<"a","u","t","o","U+017F">>, <<"U+FB01">>,
      <<"U+0149","o","_","o","c","r">>, <<"U+017F","U+FB01","U+0149">>,
      <<"U+1E9A","u","t","o">>, <<"a","u","U+1E97","o">>,
      <<"U+FB05","U+FB02">>,
      <<"o","c","r","_","a","n","d","_","t","e","x","t","_",
        "e","x","t","r","a","c","t","U+0131","o","n">> }

StrategyStrings ==
    UNION {CaseVariants(a) : a \in UNION {Spellings(n) : n \in OcrNames}}
    \cup OtherStrategies

Member(k, v) == <<k, v>>
Obj1(k, v) == JObj(<<Member(k, v)>>)

EncodingPayloads == {Obj1("encoding", JStr(s)) : s \in EncodingStrings}
StrategyPayloads ==
    {Obj1("pdf", Obj1("ocr_strategy", JStr(s))) : s \in StrategyStrings}

(***************************************************************************)
(* The 24 scalar fields of the payload, top level first (group "").        *)
(***************************************************************************)
Groups == <<"pdf", "office", "ocr">>
GroupFields(g) == FieldsOf(FieldOf("ExtractorConfig", g).ty)
InGroup(g) ==
    [i \in 1..Len(GroupFields(g)) |->
        [group |-> g, key |-> GroupFields(g)[i].name, ty |-> GroupFields(g)[i].ty]]
FieldList ==
    [i \in 1..3 |-> [group |-> "", key |-> ExtractorConfig[i].name,
                     ty |-> ExtractorConfig[i].ty]]
    \o InGroup("pdf") \o InGroup("office") \o InGroup("ocr")

Latin1 == <<"l","a","t","i","n","1">>

\* the p-th sample value of a field; the fourth is null
Sample(f, p) ==
    IF p = 4 THEN JNull
    ELSE IF f.ty = "Option<bool>" THEN JBool(<<TRUE, FALSE, TRUE>>[p])
    ELSE IF f.ty = "Option<i32>" THEN JInt(<<300, 0, -1>>[p])
    ELSE IF f.key = "encoding"
         THEN JStr(<< <<"U","T","F","-","8">>, <<"u","s","_","a","s","c","i","i">>,
                      <<"U","t","f","1","6","B","e">> >>[p])
    ELSE IF f.key = "ocr_strategy"
         THEN JStr(<< <<"n","o","_","o","c","r">>, <<"b","o","g","u","s">>,
                      <<"O","C","R","_","O","N","L","Y">> >>[p])
    ELSE JStr(<< <<"e","n","g">>, <<"d","e","u">>, <<"e","n","g">> >>[p])

\* the members a payload setting fields I (indices into FieldList) has in
\* group g, from field i on, each with its p-th sample value
RECURSIVE MembersFrom(_, _, _, _)
MembersFrom(g, I, p, i) ==
    IF i > Len(FieldList) THEN <<>>
    ELSE (IF i \in I /\ FieldList[i].group = g
          THEN <<Member(FieldList[i].key, Sample(FieldList[i], p))>>
          ELSE <<>>) \o MembersFrom(g, I, p, i + 1)

RECURSIVE GroupMembers(_, _, _)
GroupMembers(I, p, j) ==
    IF j > Len(Groups) THEN <<>>
    ELSE (IF \E i \in I : FieldList[i].group = Groups[j]
          THEN <<Member(Groups[j], JObj(MembersFrom(Groups[j], I, p, 1)))>>
          ELSE <<>>) \o GroupMembers(I, p, j + 1)

FieldPayload(I, p) == JObj(MembersFrom("", I, p, 1) \o GroupMembers(I, p, 1))

\* the subsets of 1..n of at most k elements
RECURSIVE SubsetsUpTo(_, _)
SubsetsUpTo(n, k) ==
    IF n = 0 \/ k = 0 THEN {{}}
    ELSE SubsetsUpTo(n - 1, k) \cup {S \cup {n} : S \in SubsetsUpTo(n - 1, k - 1)}

FieldPayloads ==
    {FieldPayload(I, p) : I \in SubsetsUpTo(Len(FieldList), MaxFields), p \in 1..4}

(***************************************************************************)
(* Payloads that stray from the documented shape.                          *)
(***************************************************************************)
WrongValues(ty) ==
    IF ty = "Option<i32>"
    THEN {JStr(<<"5">>), JBool(TRUE), JFloat, JBigInt, JHugeInt, JNegZero,
          JOutOfRange, JArr(<<>>), JObj(<<>>)}
    ELSE IF ty = "Option<bool>"
    THEN {JInt(1), JNegZero, JStr(<<"t","r","u","e">>), JArr(<<>>)}
    ELSE {JInt(1), JBool(FALSE), JObj(<<>>),
          JSurrogate("LoneLeadingSurrogateInHexEscape")}

Wrap(f, v) == IF f.group = "" THEN Obj1(f.key, v) ELSE Obj1(f.group, Obj1(f.key, v))

WrongTypePayloads ==
    UNION {{Wrap(FieldList[i], v) : v \in WrongValues(FieldList[i].ty)} :
           i \in 1..Len(FieldList)}

Nulls(n) == [i \in 1..n |-> JNull]
\* a group written as an array: one sample value per field, in order
Positional(g, p) == [i \in 1..Len(InGroup(g)) |-> Sample(InGroup(g)[i], p)]

NonObjectGroups(g) ==
    {JNull, JBool(TRUE), JInt(0), JFloat, JStr(<<>>)}
    \cup {JArr(Nulls(n)) : n \in 0..(Len(GroupFields(g)) + MaxExtra)}
    \cup {JArr(Positional(g, p)) : p \in 1..3}
    \cup {JArr(<<JInt(1)>> \o Tail(Positional(g, 1))),
          JArr(Positional(g, 1) \o <<JNull>>)}

NonObjectGroupPayloads ==
    UNION {{Obj1(Groups[j], v) : v \in NonObjectGroups(Groups[j])} :
           j \in 1..Len(Groups)}

DuplicateKeyPayloads ==
    { JObj(<<Member("xml", JBool(TRUE)), Member("xml", JBool(TRUE))>>),
      JObj(<<Member("pdf", JObj(<<>>)), Member("pdf", JObj(<<>>))>>),
      JObj(<<Member("encoding", JNull), Member("encoding", JNull)>>),
      Obj1("ocr", JObj(<<Member("depth", JInt(8)), Member("depth", JInt(8))>>)) }

\* the ways the text v, a container, is cut short
RECURSIVE Truncations(_)
Truncations(v) ==
    IF v.t \notin {"list", "map"} THEN {}
    ELSE {[v EXCEPT !.items = SubSeq(v.items, 1, n), !.closed = FALSE] :
             n \in 0..Len(v.items)}
         \cup UNION {{[v EXCEPT !.items = SubSeq(v.items, 1, n - 1) \o <<w>>,
                               !.closed = FALSE] : w \in Truncations(v.items[n])} :
                     n \in 1..Len(v.items)}

\* v with one of its items, at any depth, replaced by x
RECURSIVE Replaced(_, _)
Replaced(v, x) ==
    IF v.t \notin {"list", "map"} THEN {}
    ELSE {[v EXCEPT !.items[n] = x] : n \in 1..Len(v.items)}
         \cup UNION {{[v EXCEPT !.items[n] = w] : w \in Replaced(v.items[n], x)} :
                     n \in 1..Len(v.items)}

\* v with one of its items, at any depth, replaced by x and ended there: an
\* unterminated string runs to the end of the text
RECURSIVE EndedBy(_, _)
EndedBy(v, x) ==
    IF v.t \notin {"list", "map"} THEN {}
    ELSE {[v EXCEPT !.items = SubSeq(v.items, 1, n - 1) \o <<x>>,
                    !.closed = FALSE] : n \in 1..Len(v.items)}
         \cup UNION {{[v EXCEPT !.items = SubSeq(v.items, 1, n - 1) \o <<w>>,
                               !.closed = FALSE] : w \in EndedBy(v.items[n], x)} :
                     n \in 1..Len(v.items)}

\* v with one of its items, at any depth, left out
RECURSIVE Removed(_)
Removed(v) ==
    IF v.t \notin {"list", "map"} THEN {}
    ELSE {[v EXCEPT !.items = SubSeq(v.items, 1, n - 1)
                               \o SubSeq(v.items, n + 1, Len(v.items))] :
             n \in 1..Len(v.items)}
         \cup UNION {{[v EXCEPT !.items[n] = w] : w \in Removed(v.items[n])} :
                     n \in 1..Len(v.items)}

\* v with a comma before one of its closers
RECURSIVE TrailingCommas(_)
TrailingCommas(v) ==
    IF v.t \notin {"list", "map"} THEN {}
    ELSE {[v EXCEPT !.items = v.items \o <<Comma>>]}
         \cup UNION {{[v EXCEPT !.items[n] = w] : w \in TrailingCommas(v.items[n])} :
                     n \in 1..Len(v.items)}

\* ?, nul?, 01, which other items may follow, and "abc, which none does
BadItems ==
    { Bad("junk", "ExpectedSomeValue"), Bad("ident", "ExpectedSomeIdent"),
      Bad("number", "InvalidNumber") }
Unterminated == Bad("string", "EofWhileParsingString")

\* the texts the texts below are made from
Sound ==
    { JObj(<<Member("xml", JBool(TRUE)),
             Member("pdf", Obj1("ocr_strategy", JStr(<<"A","U","T","O">>))),
             Member("extra", JArr(<<JInt(1), Obj1("nested", JNull)>>))>>),
      JObj(<<Member("xml", JBool(TRUE)), Member("xml", JBool(TRUE))>>),
      Obj1("pdf", JArr(Nulls(Len(GroupFields("pdf"))))),
      Obj1("pdf", Obj1("ocr_strategy", JInt(1))),
      Obj1("encoding", JStr(Latin1)),
      JArr(<<JInt(300), JBool(TRUE)>>) }

Broken(v) ==
    Truncations(v) \cup Removed(v) \cup TrailingCommas(v)
    \cup UNION {Replaced(v, x) : x \in BadItems}
    \cup EndedBy(v, Unterminated)

\* JSON as a grammar: what a text has to be for it to denote a value
IsLiteral(v) ==
    v.t \in {"null", "bool", "int", "bigint", "hugeint", "negzero", "float",
             "out_of_range", "str", "surrogate"}

RECURSIVE IsValue(_)
IsValue(v) ==
    \/ IsLiteral(v)
    \/ /\ v.t = "list"
       /\ v.closed
       /\ Len(v.items) = 0 \/ Len(v.items) % 2 = 1
       /\ \A n \in 1..Len(v.items) :
              IF n % 2 = 1 THEN IsValue(v.items[n]) ELSE v.items[n].t = ","
    \/ /\ v.t = "map"
       /\ v.closed
       /\ Len(v.items) = 0 \/ Len(v.items) % 4 = 3
       /\ \A n \in 1..Len(v.items) :
              CASE n % 4 = 1 -> v.items[n].t \in {"str", "surrogate"}
                [] n % 4 = 2 -> v.items[n].t = ":"
                [] n % 4 = 3 -> IsValue(v.items[n])
                [] OTHER -> v.items[n].t = ","

IsJson(text) == Len(text) = 1 /\ IsValue(text[1])

\* texts that are not JSON: the empty text, a lone ?, }, a text with
\* something after its value, and the texts of Sound cut short, with an
\* item left out or replaced by what is no literal, or with a comma before
\* a closer, or closed by the wrong closer
InvalidTexts ==
    { <<>>, <<CloseBrace>>, <<Write(JObj(<<>>)), Bad("junk", "ExpectedSomeValue")>>,
      <<JInt(5), JInt(5)>>, <<Write(JObj(<<>>)), Write(JObj(<<>>))>>,
      <<List(<<JNull, CloseBrace>>, FALSE)>>,
      <<Map(<<JStr(Spell("extra")), Colon, List(<<CloseBrace>>, FALSE)>>, FALSE)>>,
      <<Map(<<JStr(Spell("xml")), Colon, JBool(TRUE), CloseBracket>>, FALSE)>>,
      <<Map(<<JStr(Spell("xml")), JBool(TRUE)>>, TRUE)>>,
      <<Map(<<JInt(1), Colon, JInt(2)>>, TRUE)>>,
      <<Map(<<JStr(Spell("max_length")), Colon, JOutOfRange, Comma>>, FALSE)>>,
      <<Map(<<JSurrogate("LoneLeadingSurrogateInHexEscape"), Colon>>, FALSE)>> }
    \cup {<<x>> : x \in BadItems \cup {Unterminated}}
    \cup {<<w>> : w \in UNION {Broken(v) : v \in {Write(d) : d \in Sound}}}

InvalidPayloads == {JInvalid(text) : text \in {x \in InvalidTexts : ~IsJson(x)}}

\* the whole payload written as a scalar or as an array
NonObjectPayloads ==
    InvalidPayloads
    \cup {JNull, JBool(TRUE), JInt(1), JNegZero, JHugeInt, JFloat, JStr(<<>>)}
    \cup {JArr(a) : a \in
            { <<>>, <<JInt(5)>>, <<JInt(5), JBool(TRUE), JStr(Latin1)>>,
              <<JStr(<<"5">>)>>, <<JNull, JNull, JNull, JNull>>,
              <<JNull, JNull, JNull, JObj(<<>>), JObj(<<>>), JObj(<<>>)>>,
              <<JNull, JNull, JStr(Latin1), JInt(1)>>,
              <<JNull, JNull, JNull, JObj(<<>>), JObj(<<>>), JObj(<<>>), JNull>>,
              <<JInt(5), JNull, JNull, JArr(Nulls(Len(GroupFields("pdf"))))>>,
              <<JNull, JNull, JNull, JArr(<<JNull>>)>>,
              <<JNull, JNull, JStr(Latin1), Obj1("ocr_strategy", JInt(1))>>,
              <<JNull, JNull, JStr(Latin1), JArr(<<JInt(1)>>)>> }}

\* d with an unsupported encoding written before or after its members
WithBadEncoding(d, front) ==
    IF front THEN JObj(<<Member("encoding", JStr(Latin1))>> \o d.o)
    ELSE JObj(d.o \o <<Member("encoding", JStr(Latin1))>>)

OddObjects == WrongTypePayloads \cup NonObjectGroupPayloads \cup DuplicateKeyPayloads

OddPayloads ==
    OddObjects \cup NonObjectPayloads
    \cup {WithBadEncoding(d, front) : d \in OddObjects, front \in BOOLEAN}

(***************************************************************************)
(* Well-formed payloads with keys added that no struct declares.           *)
(***************************************************************************)
UnknownMembers(scope) ==
    { Member("extra", JNull),
      Member("Xml", JStr(<<"y","e","s">>)),
      Member("nested", Obj1("xml", JStr(<<"y","e","s">>))),
      Member("list", JArr(<<JInt(1), JBigInt, JHugeInt, JNegZero, JFloat,
                            JOutOfRange,
                            JSurrogate("UnexpectedEndOfHexEscape")>>)) }
    \cup (IF scope = "" THEN {Member("ocr_strategy", JInt(7))}
          ELSE {Member("encoding", JStr(Latin1))})

RECURSIVE SeqsUpTo(_, _)
SeqsUpTo(S, n) ==
    IF n = 0 THEN {<<>>}
    ELSE SeqsUpTo(S, n - 1)
         \cup {<<x>> \o r : x \in S, r \in {q \in SeqsUpTo(S, n - 1) : Len(q) = n - 1}}

Put(members, extra, front) == IF front THEN extra \o members ELSE members \o extra

HasKey(members, k) == \E i \in 1..Len(members) : members[i][1] = k

\* the members of d with extra added at the top level (scope "") or inside
\* group scope, which is created when d has none
AddKeys(d, scope, extra, front) ==
    IF scope = "" THEN JObj(Put(d.o, extra, front))
    ELSE IF ~HasKey(d.o, scope) THEN JObj(d.o \o <<Member(scope, JObj(extra))>>)
    ELSE JObj([i \in 1..Len(d.o) |->
                 IF d.o[i][1] = scope
                 THEN Member(scope, JObj(Put(d.o[i][2].o, extra, front)))
                 ELSE d.o[i]])

KnownOnly ==
    { JObj(<<>>),
      Obj1("xml", JBool(TRUE)),
      Obj1("encoding", JStr(Latin1)),
      JObj(<<Member("max_length", JInt(300)),
             Member("pdf", Obj1("ocr_strategy", JStr(<<"n","o","_","o","c","r">>))),
             Member("office", JObj(<<>>)),
             Member("ocr", Obj1("language", JStr(<<"e","n","g">>)))>>),
      JObj(<<Member("office", Obj1("extract_macros", JBool(TRUE))),
             Member("encoding", JStr(<<"U","T","F","8">>))>>) }

UnknownKeysIn(scope) ==
    {AddKeys(d, scope, extra, front) :
        d \in KnownOnly,
        extra \in SeqsUpTo(UnknownMembers(scope), MaxUnknown) \ {<<>>},
        front \in BOOLEAN}

UnknownKeyPayloads == UNION {UnknownKeysIn(scope) : scope \in {"", "pdf", "office", "ocr"}}

Documents ==
    EncodingPayloads \cup StrategyPayloads \cup FieldPayloads
    \cup OddPayloads \cup UnknownKeyPayloads

\* config_json: Option<String>
Payloads == {None} \cup {Some(d) : d \in Documents}

(***************************************************************************)
(* The engine (extractous) is outside the repository: each entry point     *)
(* answers with a (content, metadata) pair or with an error message.       *)
(***************************************************************************)
EngineErrors ==
    { <<"i","o"," ","e","r","r","o","r">>,
      ExtractionFromUrlFailed \o <<":", " ">> \o <<"t","i","m","e","o","u","t">> }

EngineAnswers == {Ok(<<"content", "metadata">>)} \cup {Err(e) : e \in EngineErrors}

FilePaths == {"/tmp/doc.pdf"}
Buffers == {"%PDF-1.7"}
Urls == {"https://example.com/doc.pdf"}

(***************************************************************************)
(* The state machine.  One call at a time runs from "idle" through         *)
(* configure_extractor_from_json ("configure") and the engine entry point  *)
(* ("engine") to its return value ("done").  Nothing survives a call.      *)
(***************************************************************************)
Init ==
    /\ pc = "idle"
    /\ nif = "none"
    /\ input = "none"
    /\ config_json = None
    /\ extractor = None
    /\ invoked = <<>>
    /\ passed = <<>>
    /\ result = None

\* lib.rs 200: extract(file_path, config_json) is called
extract ==
    /\ pc = "idle"
    /\ \E file_path \in FilePaths, json_opt \in Payloads :
         /\ input' = file_path
         /\ config_json' = json_opt
    /\ nif' = "extract"
    /\ pc' = "configure"
    /\ UNCHANGED <<extractor, invoked, passed, result>>

\* lib.rs 210: extract_bytes(buffer, config_json) is called
extract_bytes ==
    /\ pc = "idle"
    /\ \E buffer \in Buffers, json_opt \in Payloads :
         /\ input' = buffer
         /\ config_json' = json_opt
    /\ nif' = "extract_bytes"
    /\ pc' = "configure"
    /\ UNCHANGED <<extractor, invoked, passed, result>>

\* lib.rs 221: extract_url(url, config_json) is called
extract_url ==
    /\ pc = "idle"
    /\ \E url \in Urls, json_opt \in Payloads :
         /\ input' = url
         /\ config_json' = json_opt
    /\ nif' = "extract_url"
    /\ pc' = "configure"
    /\ UNCHANGED <<extractor, invoked, passed, result>>

\* Configure falling back to a fresh extractor instead of returning the error
Configure_unwrap_or_default ==
    /\ pc = "configure"
    /\ \E r \in {configure_extractor_from_json(config_json)} :
           /\ invoked' = r.calls
           /\ extractor' = Some(IF r.res.ok THEN r.res.val ELSE Extractor_new)
    /\ pc' = "engine"
    /\ UNCHANGED <<nif, input, config_json, passed, result>>

\* lib.rs 201, 211, 222: let extractor = configure_extractor_from_json(..)?
Configure ==
    /\ pc = "configure"
    /\ \E r \in {configure_extractor_from_json(config_json)} :
           /\ invoked' = r.calls
           /\ IF r.res.ok
              THEN /\ extractor' = Some(r.res.val)
                   /\ pc' = "engine"
                   /\ UNCHANGED result
              ELSE /\ result' = Some(Err(r.res.err))
                   /\ pc' = "done"
                   /\ UNCHANGED extractor
    /\ UNCHANGED <<nif, input, config_json, passed>>

\* the call of an engine entry point, as the engine sees it
EngineCall(which, answer) ==
    [ entry |-> entry_point(which), config |-> extractor[1], arg |-> input,
      answer |-> answer ]

\* lib.rs 203-206
extract_file_to_string ==
    /\ pc = "engine"
    /\ nif = "extract"
    /\ \E answer \in EngineAnswers :
         /\ passed' = Append(passed, EngineCall("extract", answer))
         /\ result' = Some(nif_result("extract", answer))
    /\ pc' = "done"
    /\ UNCHANGED <<nif, input, config_json, extractor, invoked>>

\* lib.rs 212-217
extract_bytes_to_string ==
    /\ pc = "engine"
    /\ nif = "extract_bytes"
    /\ \E answer \in EngineAnswers :
         /\ passed' = Append(passed, EngineCall("extract_bytes", answer))
         /\ result' = Some(nif_result("extract_bytes", answer))
    /\ pc' = "done"
    /\ UNCHANGED <<nif, input, config_json, extractor, invoked>>

\* lib.rs 224-227
extract_url_to_string ==
    /\ pc = "engine"
    /\ nif = "extract_url"
    /\ \E answer \in EngineAnswers :
         /\ passed' = Append(passed, EngineCall("extract_url", answer))
         /\ result' = Some(nif_result("extract_url", answer))
    /\ pc' = "done"
    /\ UNCHANGED <<nif, input, config_json, extractor, invoked>>

\* the NIF returns result; the call's locals are dropped
Return ==
    /\ pc = "done"
    /\ pc' = "idle"
    /\ nif' = "none"
    /\ input' = "none"
    /\ config_json' = None
    /\ extractor' = None
    /\ invoked' = <<>>
    /\ passed' = <<>>
    /\ result' = None

Next ==
    \/ extract
    \/ extract_bytes
    \/ extract_url
    \/ Configure
    \/ extract_file_to_string
    \/ extract_bytes_to_string
    \/ extract_url_to_string
    \/ Return

Spec == Init /\ [][Next]_vars

(***************************************************************************)
(* What the documentation says of a payload, read off the payload itself   *)
(* (not through the deserializer above).                                   *)
(***************************************************************************)
AfterConfigure == pc \in {"engine", "done"}
Resolved == AfterConfigure /\ extractor # None
ConfigFailed == pc = "done" /\ extractor = None

TypeOk(ty, v) ==
    \/ v.t = "null"
    \/ ty = "Option<i32>" /\ v.t = "int"
    \/ ty = "Option<bool>" /\ v.t = "bool"
    \/ ty = "Option<String>" /\ v.t = "str"

Once(members, k) == Cardinality({i \in 1..Len(members) : members[i][1] = k}) = 1

\* every declared member of the object occurs once and holds its type
MembersOk(ty, members) ==
    \A i \in 1..Len(members) :
        members[i][1] \in FieldNames(ty) =>
            /\ Once(members, members[i][1])
            /\ LET fty == FieldOf(ty, members[i][1]).ty
               IN  IF fty \in StructTypes
                   THEN /\ members[i][2].t = "obj"
                        /\ \A j \in 1..Len(members[i][2].o) :
                              LET m == members[i][2].o[j]
                              IN  m[1] \in FieldNames(fty) =>
                                     /\ Once(members[i][2].o, m[1])
                                     /\ TypeOk(FieldOf(fty, m[1]).ty, m[2])
                   ELSE TypeOk(fty, members[i][2])

WellFormed(json_opt) ==
    json_opt = None
    \/ (json_opt[1].t = "obj" /\ MembersOk("ExtractorConfig", json_opt[1].o))

\* the value member k holds, null when there is no such member
ValueOf(members, k) ==
    IF HasKey(members, k)
    THEN members[CHOOSE i \in 1..Len(members) : members[i][1] = k][2]
    ELSE JNull

\* the value a well-formed payload gives field f of FieldList
PayloadValue(json_opt, f) ==
    IF json_opt = None THEN JNull
    ELSE IF f.group = "" THEN ValueOf(json_opt[1].o, f.key)
    ELSE IF ~HasKey(json_opt[1].o, f.group) THEN JNull
    ELSE ValueOf(ValueOf(json_opt[1].o, f.group).o, f.key)

Encoding == FieldList[3]
OcrStrategy == FieldList[4]

\* f as the extractor holds it
ExtractorField(e, f) ==
    IF f.group = ""
    THEN CASE f.key = "max_length" -> e.extract_string_max_length
           [] f.key = "xml" -> e.xml_output
           [] f.key = "encoding" -> e.encoding
    ELSE CASE f.group = "pdf" -> e.pdf_config[f.key]
           [] f.group = "office" -> e.office_config[f.key]
           [] f.group = "ocr" -> e.ocr_config[f.key]

\* the canonical character set an encoding name stands for, "" if none
Canonical(s) ==
    LET l == AsciiLowerStr(s)
    IN  IF l \in Utf8Names THEN "UTF_8"
        ELSE IF l \in Utf16beNames THEN "UTF_16BE"
        ELSE IF l \in UsAsciiNames THEN "US_ASCII"
        ELSE ""

\* s with case ignored the way Unicode upper-casing ignores it: the ASCII
\* letters, and dotless i, whose capital is I
IgnoreCase(s) ==
    [i \in 1..Len(s) |-> IF s[i] = "U+0131" THEN "I" ELSE AsciiUpper(s[i])]

StrategyTag(name) ==
    CASE name = NoOcrName -> "NO_OCR"
      [] name = AutoName -> "AUTO"
      [] name = OcrOnlyName -> "OCR_ONLY"
      [] name = OcrAndTextName -> "OCR_AND_TEXT_EXTRACTION"

Supported(s) == IgnoreCase(s) \in OcrNames

\* C1: with the payload otherwise well-formed, every case variant of an
\* encoding alias resolves to the alias's canonical character set, and any
\* other encoding string ends the call with "Unsupported encoding: <the
\* string as supplied>. Supported encodings: UTF-8, UTF-16BE, US-ASCII",
\* with no extractor built
C1_CharsetStrict ==
    (AfterConfigure /\ WellFormed(config_json)
        /\ PayloadValue(config_json, Encoding).t = "str") =>
    LET s == PayloadValue(config_json, Encoding).s
    IN  IF Canonical(s) # ""
        THEN extractor # None /\ extractor[1].encoding = Some(Canonical(s))
        ELSE /\ pc = "done"
             /\ extractor = None
             /\ passed = <<>>
             /\ result = Some(Err(UnsupportedEncoding \o s \o SupportedEncodings))

C1_Witness ==
    /\ Resolved
    /\ config_json # None
    /\ WellFormed(config_json)
    /\ PayloadValue(config_json, Encoding).t = "str"
    /\ PayloadValue(config_json, Encoding).s = <<"u","S","-","a","s","c","I","i">>
    /\ extractor[1].encoding = Some("US_ASCII")

\* C2: with the rest of the payload valid, an ocr_strategy string outside
\* the supported set resolves to AUTO and resolution succeeds
C2_OcrLenient ==
    (AfterConfigure /\ WellFormed(config_json)
        /\ PayloadValue(config_json, OcrStrategy).t = "str"
        /\ ~Supported(PayloadValue(config_json, OcrStrategy).s)
        /\ (PayloadValue(config_json, Encoding).t = "str"
               => Canonical(PayloadValue(config_json, Encoding).s) # "")) =>
    /\ extractor # None
    /\ extractor[1].pdf_config.ocr_strategy = Some("AUTO")

C2_Witness ==
    /\ Resolved
    /\ WellFormed(config_json)
    /\ PayloadValue(config_json, OcrStrategy).t = "str"
    /\ PayloadValue(config_json, OcrStrategy).s = <<"b","o","g","u","s">>
    /\ extractor[1].pdf_config.ocr_strategy = Some("AUTO")

\* the value the resolved configuration holds for field f of a well-formed
\* payload: None (the engine's default) when f is absent or null
Expected(json_opt, f) ==
    LET v == PayloadValue(json_opt, f)
    IN  IF v.t = "null" THEN None
        ELSE IF f.key = "encoding" THEN Some(Canonical(v.s))
        ELSE IF f.key = "ocr_strategy"
             THEN Some(IF Supported(v.s) THEN StrategyTag(IgnoreCase(v.s)) ELSE "AUTO")
        ELSE CASE v.t = "int" -> Some(v.n)
               [] v.t = "bool" -> Some(v.b)
               [] v.t = "str" -> Some(v.s)

\* the engine writes plain text unless set_xml_output(true) was called
OutputFormat(e) == IF e.xml_output = Some(TRUE) THEN "Xml" ELSE "PlainText"

\* C3: when a well-formed (or absent) payload resolves, every field of the
\* extractor holds the payload's value for it if the payload has one and
\* the default otherwise; xml true gives Xml, anything else PlainText; no
\* payload gives the extractor as constructed
C3_FieldOverride ==
    (Resolved /\ WellFormed(config_json)) =>
    /\ \A i \in 1..Len(FieldList) :
          ExtractorField(extractor[1], FieldList[i]) = Expected(config_json, FieldList[i])
    /\ OutputFormat(extractor[1]) =
          (IF PayloadValue(config_json, FieldList[2]) = JBool(TRUE)
           THEN "Xml" ELSE "PlainText")
    /\ (config_json = None => extractor[1] = Extractor_new)

C3_Witness ==
    /\ Resolved
    /\ config_json = Some(Obj1("office", Obj1("extract_macros", JBool(FALSE))))
    /\ extractor[1] =
          [Extractor_new EXCEPT !.office_config.extract_macros = Some(FALSE)]

IsPrefix(p, s) == Len(p) <= Len(s) /\ SubSeq(s, 1, Len(p)) = p

\* a group written as an object: a declared field of it holds a value of
\* the wrong type, or a group of it is malformed.  A group written as an
\* array (where arrays_pass lets arrays pass): one value per field in
\* declaration order, each null or of the type of its field and each group
\* well formed; the top level may leave fields out at the end, a nested
\* group may not.  Anything else is no group.
RECURSIVE MalformedGroup(_, _, _)
MalformedGroup(ty, v, arrays_pass) ==
    IF v.t = "obj"
    THEN \E i \in 1..Len(v.o) :
            /\ v.o[i][1] \in FieldNames(ty)
            /\ LET fty == FieldOf(ty, v.o[i][1]).ty
               IN  IF fty \in StructTypes
                   THEN MalformedGroup(fty, v.o[i][2], arrays_pass)
                   ELSE ~TypeOk(fty, v.o[i][2])
    ELSE IF v.t = "arr" /\ arrays_pass
    THEN \/ Len(v.a) > Len(FieldsOf(ty))
         \/ ty # "ExtractorConfig" /\ Len(v.a) < Len(FieldsOf(ty))
         \/ \E i \in 1..Len(v.a) :
               i <= Len(FieldsOf(ty)) /\
               LET fty == FieldsOf(ty)[i].ty
               IN  IF fty \in StructTypes
                   THEN MalformedGroup(fty, v.a[i], arrays_pass)
                   ELSE ~TypeOk(fty, v.a[i])
    ELSE TRUE

\* structurally malformed as C4 has it: a text that is not JSON, a declared
\* field of the wrong type, a group (the top level is one) that is not an
\* object; with arrays_pass, the arrays the code reads a group from are let
\* pass
Malformed(json_opt, arrays_pass) ==
    /\ json_opt # None
    /\ IF json_opt[1].t = "invalid" THEN ~IsJson(json_opt[1].text)
       ELSE MalformedGroup("ExtractorConfig", json_opt[1], arrays_pass)

\* what serde_json says of a text it does not read as the struct: a syntax
\* error, a value of the wrong type or out of range, an array too short, a
\* field given twice
ItemKinds == {"null", "bool", "str", "list", "map", "float", "int"}
Diagnostics ==
    {SyntaxError(code) : code \in SyntaxErrors}
    \cup {InvalidType([t |-> k]) : k \in ItemKinds}
    \cup {InvalidValue([t |-> k]) : k \in ItemKinds}
    \cup {InvalidLength, DuplicateField}

\* the call ended with "Invalid JSON configuration: <diagnostic>" before
\* any constructor, setter or resolver was called
DeserializationError ==
    /\ pc = "done"
    /\ extractor = None
    /\ invoked = <<>>
    /\ passed = <<>>
    /\ result # None
    /\ ~result[1].ok
    /\ \E d \in Diagnostics : result[1].err = InvalidJsonConfiguration \o d

\* C4 as claimed: a payload that is not parseable, or has a declared field
\* of the wrong type, or a group (the top level is one) that is not an
\* object, ends the call with
\* "Invalid JSON configuration: <diagnostic>" before any constructor or
\* resolver is called, whatever its encoding says
C4_AsClaimed ==
    (AfterConfigure /\ Malformed(config_json, FALSE)) => DeserializationError

\* C4 amended: the same, except that a group written as an array holding
\* one value of the right type (or null) per field, in declaration order,
\* is accepted, and so is the top level written as such an array with
\* fields left out at the end
C4_Malformed ==
    (AfterConfigure /\ Malformed(config_json, TRUE)) => DeserializationError

C4_Witness ==
    /\ DeserializationError
    /\ config_json = Some(JObj(<<Member("encoding", JStr(Latin1)),
                                 Member("max_length", JStr(<<"5">>))>>))

EngineEntries ==
    {"extract_file_to_string", "extract_bytes_to_string", "extract_url_to_string"}
AllBuilt ==
    {"Extractor::new", "PdfParserConfig::new", "OfficeParserConfig::new",
     "TesseractOcrConfig::new"}
Called(name) == \E i \in 1..Len(invoked) : invoked[i] = name

\* C5: a call returns once, either the engine's pair or one error; the
\* engine is only ever called with the extractor that a fully successful
\* resolution built, and never when resolution failed
C5_AllOrNothing ==
    /\ (pc = "done") = (result # None)
    /\ (extractor = None => passed = <<>>)
    /\ AfterConfigure =>
          LET r == configure_extractor_from_json(config_json).res
          IN  /\ ~r.ok => /\ pc = "done"
                          /\ extractor = None
                          /\ passed = <<>>
                          /\ result = Some(Err(r.err))
              /\ \A i \in 1..Len(passed) :
                    /\ \A b \in AllBuilt : Called(b)
                    /\ passed[i].config = extractor[1]
                    /\ passed[i].config = r.val
    /\ (pc = "done" /\ result[1].ok) =>
          /\ Len(passed) = 1
          /\ passed[1].answer.ok
          /\ result[1].val[1] = passed[1].answer.val[1]

C5_Witness ==
    /\ pc = "done"
    /\ config_json = Some(Obj1("encoding", JStr(Latin1)))
    /\ ~result[1].ok
    /\ passed = <<>>

\* the prefix C6 gives each pathway
PathwayPrefix(which) ==
    CASE which = "extract" -> ExtractionFailed
      [] which = "extract_bytes" -> ExtractionFromBytesFailed
      [] which = "extract_url" -> ExtractionFromUrlFailed
Pathways == {"extract", "extract_bytes", "extract_url"}

\* C6: an engine failure is returned as "<prefix of the pathway called>:
\* <the engine's message>", which begins with no other pathway's prefix;
\* a configuration error begins with none of the three
C6_FailurePrefix ==
    /\ (pc = "done" /\ passed # <<>> /\ ~passed[1].answer.ok) =>
          /\ ~result[1].ok
          /\ result[1].err = PathwayPrefix(nif) \o <<":", " ">> \o passed[1].answer.err
          /\ \A w \in Pathways : IsPrefix(PathwayPrefix(w), result[1].err) <=> w = nif
    /\ ConfigFailed =>
          \A w \in Pathways : ~IsPrefix(PathwayPrefix(w), result[1].err)

C6_Witness ==
    /\ pc = "done"
    /\ nif = "extract_bytes"
    /\ passed # <<>>
    /\ ~passed[1].answer.ok
    /\ IsPrefix(ExtractionFromBytesFailed, result[1].err)

\* the members of a well-formed object that struct ty declares, groups
\* stripped likewise
RECURSIVE Strip(_, _)
Strip(ty, members) ==
    IF members = <<>> THEN <<>>
    ELSE LET m == Head(members)
         IN  (IF m[1] \notin FieldNames(ty) THEN <<>>
              ELSE IF FieldOf(ty, m[1]).ty \in StructTypes
              THEN <<Member(m[1], JObj(Strip(FieldOf(ty, m[1]).ty, m[2].o)))>>
              ELSE <<m>>) \o Strip(ty, Tail(members))

\* what configure_extractor_from_json returned in this call
Configured == IF extractor # None THEN Ok(extractor[1]) ELSE result[1]

SameResult(a, b) ==
    /\ a.ok = b.ok
    /\ (a.ok => a.val = b.val)
    /\ (~a.ok => a.err = b.err)

\* C7: a well-formed payload resolves to what the same payload without its
\* undeclared keys (at the top level and inside the groups) resolves to:
\* the same extractor or the same error
C7_UnknownKeysIgnored ==
    (AfterConfigure /\ config_json # None /\ WellFormed(config_json)) =>
    SameResult(Configured,
               configure_extractor_from_json(
                   Some(JObj(Strip("ExtractorConfig", config_json[1].o)))).res)

C7_Witness ==
    /\ Resolved
    /\ config_json # None
    /\ WellFormed(config_json)
    /\ HasKey(config_json[1].o, "nested")
    /\ HasKey(config_json[1].o, "ocr_strategy")
    /\ extractor[1].xml_output = Some(TRUE)

\* C8 as claimed: every case variant of the underscore, hyphen and
\* no-separator spelling of a strategy's name resolves to that strategy
C8_AsClaimed ==
    (Resolved /\ WellFormed(config_json)
        /\ PayloadValue(config_json, OcrStrategy).t = "str") =>
    LET u == AsciiUpperStr(PayloadValue(config_json, OcrStrategy).s)
    IN  \A name \in OcrNames :
            u \in Spellings(name) =>
                extractor[1].pdf_config.ocr_strategy = Some(StrategyTag(name))

\* C8 amended: every case variant of the underscore spelling of a
\* strategy's name resolves to that strategy; the hyphen and no-separator
\* spellings of NO_OCR, OCR_ONLY and OCR_AND_TEXT_EXTRACTION are not
\* recognised and resolve to AUTO
C8_UnderscoreOnly ==
    (Resolved /\ WellFormed(config_json)
        /\ PayloadValue(config_json, OcrStrategy).t = "str") =>
    LET u == AsciiUpperStr(PayloadValue(config_json, OcrStrategy).s)
    IN  \A name \in OcrNames :
            /\ u = name =>
                  extractor[1].pdf_config.ocr_strategy = Some(StrategyTag(name))
            /\ (u \in Spellings(name) /\ u # name) =>
                  extractor[1].pdf_config.ocr_strategy = Some("AUTO")

C8_Witness ==
    /\ Resolved
    /\ WellFormed(config_json)
    /\ PayloadValue(config_json, OcrStrategy).t = "str"
    /\ PayloadValue(config_json, OcrStrategy).s = <<"N","o","-","o","c","r">>
    /\ extractor[1].pdf_config.ocr_strategy = Some("AUTO")

\* C9: the extractor handed to the engine has no maximum output length or
\* a positive one
C9_MaxLengthPositive ==
    \A i \in 1..Len(passed) :
        \/ passed[i].config.extract_string_max_length = None
        \/ passed[i].config.extract_string_max_length[1] > 0

\* the entry point C10 gives each NIF
EntryFor(which) ==
    CASE which = "extract" -> "extract_file_to_string"
      [] which = "extract_bytes" -> "extract_bytes_to_string"
      [] which = "extract_url" -> "extract_url_to_string"

\* C10: a call whose configuration resolves calls the entry point of its
\* NIF once, after resolution, with the NIF's input and the extractor as
\* resolved; no call calls an entry point twice or calls another one
C10_SingleDispatch ==
    /\ Len(passed) <= 1
    /\ (pc = "engine" => passed = <<>>)
    /\ (pc = "done" /\ extractor # None) => Len(passed) = 1
    /\ \A i \in 1..Len(passed) :
          /\ pc = "done"
          /\ passed[i].entry = EntryFor(nif)
          /\ passed[i].arg = input
          /\ \A b \in AllBuilt : Called(b)
          /\ passed[i].config = configure_extractor_from_json(config_json).res.val

C10_Witness ==
    /\ pc = "done"
    /\ nif = "extract_url"
    /\ Len(passed) = 1
    /\ passed[1].entry = "extract_url_to_string"
    /\ ~passed[1].answer.ok
    /\ config_json = Some(Obj1("xml", JBool(TRUE)))

====
